---- MODULE Spec2Model ----
(***************************************************************************)
(* Model of the duplicate detection service of baseCamp                    *)
(* (src/src/services/duplicate_service.py): the contact matcher            *)
(* _is_same_contact_from_metadata and the decision engine                  *)
(* analyze_lead_for_duplicates with calculate_message_similarity.          *)
(*                                                                         *)
(* Conventions.  None is the empty sequence and a present value v is the   *)
(* one-element sequence <<v>>.  A similarity is an integer number of       *)
(* hundredths (0.9 is 90).  A point in time is a number of seconds before  *)
(* the moment of the call ("age"); the call itself happens                 *)
(* NowEpoch seconds after 1970-01-01T00:00:00Z.  A text is a sequence of   *)
(* one-character strings, a message a sequence of words.                   *)
(***************************************************************************)
EXTENDS Integers, Sequences, FiniteSets, TLC

\* Longest contact history handed to one call.
MaxHistory == 2

\* Most records ever created in the Airtable table.
MaxRecords == 3

\* Latest time of the event loop clock, in tenths of a second, and most
\* requests let through by the rate limiter.
MaxClock == 5
MaxRequests == 3

\* Program constants.
DefaultTimeWindowHours == 24
DefaultMessageThreshold == 80
DefaultSuspiciousThreshold == 90
DefaultSuspiciousWindowMinutes == 60
FallbackHours == 25
PhoneDigits == 10
SimScale == 100
DefaultSimilarityThreshold == 85
DefaultMaxSimilarLeads == 5
FallbackQualityScore == 30
UrgentBoost == 20
AppointmentBoost == 15
ContactBoost == 25
RateLimitDelay == 2

\* Seconds between the epoch and the call (datetime.now(timezone.utc)).
NowEpoch == 30000000 * 60

None == <<>>
Some(v) == <<v>>

\* int(x / k) of Python: truncation toward zero.
TruncDiv(x, k) == IF x >= 0 THEN x \div k ELSE -((-x) \div k)

Max(a, b) == IF a >= b THEN a ELSE b
Min(a, b) == IF a <= b THEN a ELSE b

(***************************************************************************)
(* Configuration read by SmartDuplicateAnalyzer.__init__ from settings.    *)
(***************************************************************************)
Config(hours, minutes, link, flag) ==
    [duplicate_time_window_hours |-> hours,
     duplicate_message_threshold |-> DefaultMessageThreshold,
     duplicate_suspicious_threshold |-> DefaultSuspiciousThreshold,
     duplicate_suspicious_window_minutes |-> minutes,
     auto_link_related_leads |-> link,
     flag_suspicious_duplicates |-> flag]

\* The defaults, each switch turned off, and either window widened.
Configs ==
    {Config(DefaultTimeWindowHours, DefaultSuspiciousWindowMinutes, TRUE, TRUE),
     Config(DefaultTimeWindowHours, DefaultSuspiciousWindowMinutes, FALSE, TRUE),
     Config(DefaultTimeWindowHours, DefaultSuspiciousWindowMinutes, TRUE, FALSE),
     Config(2 * DefaultTimeWindowHours, DefaultSuspiciousWindowMinutes, TRUE, TRUE),
     Config(2 * DefaultTimeWindowHours, 2000, TRUE, TRUE)}

(***************************************************************************)
(* Messages.  str.lower() on the words that occur in the model.            *)
(***************************************************************************)
LowerWord(w) == IF w = "Oil" THEN "oil" ELSE w

LowerWords(m) == {LowerWord(m[i]) : i \in 1..Len(m)}

\* A message of a new lead: LeadInput accepts only a non-blank message.
NewMessages == {<<"Oil", "change">>}

\* _basic_text_similarity on two texts: word overlap (Jaccard).
BasicTextSimilarity(m1, m2) ==
    LET words1 == LowerWords(m1)
        words2 == LowerWords(m2)
    IN  IF words1 = {} \/ words2 = {}
        THEN 0
        ELSE (SimScale * Cardinality(words1 \cap words2))
                 \div Cardinality(words1 \cup words2)

(***************************************************************************)
(* Outcome of the embedding model inside calculate_message_similarity:     *)
(* "unavailable" (embedding_model is None), "raise" (encode fails),        *)
(* "zero_norm" (a zero vector), or "ok" with the raw cosine cos, which     *)
(* floating point can put slightly outside [0, 1].                         *)
(***************************************************************************)
RawCosines == {-5, 85, 95, 105}

EmbedOutcomes ==
    {[kind |-> "ok", cos |-> c] : c \in RawCosines \cup {SimScale}}
        \cup {[kind |-> k, cos |-> 0] : k \in {"unavailable", "raise", "zero_norm"}}

\* The two normalised texts are the same text: the two embeddings are the
\* same vector and the cosine is 1 up to rounding.
SameNormalisedText(m1, m2) ==
    /\ Len(m1) = Len(m2)
    /\ \A i \in 1..Len(m1) : LowerWord(m1[i]) = LowerWord(m2[i])

EmbedConsistent(m1, stored, emb) ==
    (emb.kind = "ok" /\ stored # None /\ SameNormalisedText(m1, stored[1]))
        => emb.cos >= SimScale

\* calculate_message_similarity(message1, message2): [exc, value].
\* message2 is Some(text) or None; an AttributeError on None inside the try
\* block is caught and the fallback raises it again.
CalculateMessageSimilarity(message1, message2, emb) ==
    IF message2 = None
    THEN [exc |-> "AttributeError", value |-> 0]
    ELSE IF emb.kind \in {"unavailable", "raise"}
    THEN [exc |-> "none", value |-> BasicTextSimilarity(message1, message2[1])]
    ELSE IF emb.kind = "zero_norm"
    THEN [exc |-> "none", value |-> 0]
    ELSE [exc |-> "none", value |-> Max(0, Min(SimScale, emb.cos))]

(***************************************************************************)
(* History entries (SimilarityResult): lead_id and metadata.               *)
(*   lead_id  identity of the lead (its position in the supplied list)     *)
(*   id_kind  "uuid" a UUID object, "str" its string, "bad" a string that  *)
(*            is no UUID                                                   *)
(*   ts_kind  metadata['received_at']: "aware" ISO text with an offset,    *)
(*            "naive" ISO text without one, "bad" unparsable text,         *)
(*            "missing" no such key, "none" the value None                 *)
(*   age      seconds between that time and now (aware and naive only)     *)
(***************************************************************************)
Ages == {-90, 90, 3600, 14400, 172800}

Shape(id_kind, ts_kind, age, message) ==
    [id_kind |-> id_kind, ts_kind |-> ts_kind, age |-> age, message |-> message]

\* Shapes of one entry, before its identity and contact are filled in:
\* well-formed entries of every age, then one malformation at a time.
EntryShapes ==
    {Shape("uuid", "aware", a, Some(<<"oil", "change">>)) : a \in Ages}
      \cup {Shape("uuid", "aware", a, Some(<<"brakes">>)) : a \in {90, 14400}}
      \cup {Shape("str", "naive", a, Some(<<"Oil", "change">>)) : a \in {90, 14400}}
      \cup {Shape("str", k, 0, Some(<<"Oil", "change">>)) : k \in {"bad", "missing", "none"}}
      \cup {Shape("bad", "aware", 90, Some(<<"Oil", "change">>))}
      \cup {Shape("uuid", "aware", 90, m) : m \in {Some(<<>>), None}}

(***************************************************************************)
(* Texts: str.lower(), str.strip() and str.isdigit() on the characters     *)
(* that occur in the model.                                                *)
(***************************************************************************)
LowerChar(c) ==
    IF c = "J" THEN "j" ELSE IF c = "D" THEN "d" ELSE IF c = "S" THEN "s" ELSE c

Lower(s) == [i \in 1..Len(s) |-> LowerChar(s[i])]

IsSpace(c) == c = " "

IsDigit(c) == c \in {"0", "1", "2", "3", "4", "5", "6", "7", "8", "9"}

RECURSIVE LStrip(_)
LStrip(s) == IF s # <<>> /\ IsSpace(Head(s)) THEN LStrip(Tail(s)) ELSE s

RECURSIVE RStrip(_)
RStrip(s) ==
    IF s # <<>> /\ IsSpace(s[Len(s)]) THEN RStrip(SubSeq(s, 1, Len(s) - 1)) ELSE s

Strip(s) == RStrip(LStrip(s))

\* "".join(c for c in s if c.isdigit())
Digits(s) == SelectSeq(s, IsDigit)

\* Mutation: the whole digit string is compared, no country code is cut off.
LastNWhole(s, n) == s

\* s[-n:]
LastN(s, n) == IF Len(s) <= n THEN s ELSE SubSeq(s, Len(s) - n + 1, Len(s))

\* Truthiness of an optional text: None and "" are false.
Truthy(opt) == opt # None /\ opt[1] # <<>>

EmailJohn == <<"j", "d", "@", "x">>
EmailJohnCaps == <<"J", "D", "@", "x">>
EmailJane == <<"j", "s", "@", "x">>

PhoneJohn == <<"5", "5", "5", "1", "2", "3", "4", "5", "6", "7">>
PhoneJohnFormatted ==
    <<"+", "1", " ", "5", "5", "5", "-", "1", "2", "3", "-", "4", "5", "6", "7">>
PhoneJane == <<"5", "5", "5", "9", "8", "7", "6", "5", "4", "3">>
PhoneShort == <<"1", "2", "3", "-", "4", "5", "6", "7">>

NameJohn == <<"J", "D">>
NameJohnSpaced == <<" ", "j", "d", " ">>
NameJane == <<"J", "S">>

\* ContactInfo of the models package: a phone is accepted only with at
\* least PhoneDigits digits.
ContactInfoValid(c) ==
    c.phone # None => Len(Digits(c.phone[1])) >= PhoneDigits

ContactJohn ==
    [email |-> Some(EmailJohn), phone |-> Some(PhoneJohn), full_name |-> Some(NameJohn)]
ContactJane ==
    [email |-> Some(EmailJane), phone |-> Some(PhoneJane), full_name |-> Some(NameJane)]

(***************************************************************************)
(* The histories a caller can supply: up to MaxHistory entries of one      *)
(* stored contact, in any order.                                           *)
(***************************************************************************)
ShapeSeqs == UNION {[1..n -> EntryShapes] : n \in 0..MaxHistory}

MakeHistory(shapes, c) ==
    [i \in 1..Len(shapes) |->
        [lead_id |-> i,
         id_kind |-> shapes[i].id_kind,
         metadata |->
            [received_at |-> [ts_kind |-> shapes[i].ts_kind, age |-> shapes[i].age],
             message |-> shapes[i].message,
             contact_email |-> c.email,
             contact_phone |-> c.phone,
             contact_name |-> c.full_name]]]

(***************************************************************************)
(* sorted(contact_history, key=get_received_time, reverse=True)            *)
(***************************************************************************)
\* get_received_time: the instant (seconds since the epoch) and whether the
\* datetime carries a timezone.  Unparsable text and a missing key give
\* 1970-01-01T00:00:00+00:00.
ReceivedTime(e) ==
    LET r == e.metadata.received_at
    IN  IF r.ts_kind \in {"aware", "naive"}
        THEN [t |-> NowEpoch - r.age, aware |-> r.ts_kind = "aware"]
        ELSE [t |-> 0, aware |-> TRUE]

\* The exception sorted() ends with, or "none".  Every key is computed
\* before the first comparison; None.endswith raises AttributeError;
\* comparing an offset-naive with an offset-aware datetime raises TypeError.
SortException(h) ==
    IF \E i \in 1..Len(h) : h[i].metadata.received_at.ts_kind = "none"
    THEN "AttributeError"
    ELSE IF \E i, j \in 1..Len(h) : ReceivedTime(h[i]).aware # ReceivedTime(h[j]).aware
    THEN "TypeError"
    ELSE "none"

\* Place of entry i in the stable descending order.
Rank(h, i) ==
    1 + Cardinality({j \in 1..Len(h) :
            \/ ReceivedTime(h[j]).t > ReceivedTime(h[i]).t
            \/ ReceivedTime(h[j]).t = ReceivedTime(h[i]).t /\ j < i})

SortedHistory(h) ==
    [k \in 1..Len(h) |-> h[CHOOSE i \in 1..Len(h) : Rank(h, i) = k]]

(***************************************************************************)
(* _is_same_contact_from_metadata(contact_info, metadata)                  *)
(***************************************************************************)
\* Mutation: the phone is looked at before the email.
IsSameContactPhoneFirst(contact_info, metadata) ==
    LET phones == Truthy(contact_info.phone) /\ Truthy(metadata.contact_phone)
        phone1 == IF phones THEN Digits(contact_info.phone[1]) ELSE <<>>
        phone2 == IF phones THEN Digits(metadata.contact_phone[1]) ELSE <<>>
    IN  IF phones /\ Len(phone1) >= PhoneDigits /\ Len(phone2) >= PhoneDigits
        THEN LastN(phone1, PhoneDigits) = LastN(phone2, PhoneDigits)
        ELSE IF Truthy(contact_info.email) /\ Truthy(metadata.contact_email)
        THEN Lower(contact_info.email[1]) = Lower(metadata.contact_email[1])
        ELSE IF Truthy(contact_info.full_name) /\ Truthy(metadata.contact_name)
        THEN Strip(Lower(contact_info.full_name[1]))
                 = Strip(Lower(metadata.contact_name[1]))
        ELSE FALSE

IsSameContactFromMetadata(contact_info, metadata) ==
    IF Truthy(contact_info.email) /\ Truthy(metadata.contact_email)
    THEN Lower(contact_info.email[1]) = Lower(metadata.contact_email[1])
    ELSE LET phones == Truthy(contact_info.phone) /\ Truthy(metadata.contact_phone)
             phone1 == IF phones THEN Digits(contact_info.phone[1]) ELSE <<>>
             phone2 == IF phones THEN Digits(metadata.contact_phone[1]) ELSE <<>>
         IN  IF phones /\ Len(phone1) >= PhoneDigits /\ Len(phone2) >= PhoneDigits
             THEN LastN(phone1, PhoneDigits) = LastN(phone2, PhoneDigits)
             ELSE IF Truthy(contact_info.full_name) /\ Truthy(metadata.contact_name)
             THEN Strip(Lower(contact_info.full_name[1]))
                      = Strip(Lower(metadata.contact_name[1]))
             ELSE FALSE

\* The contacts and the metadata the matcher is called with.  A ContactInfo
\* is validated; the metadata of a record is a plain dictionary.
ContactInfos ==
    {c \in [email : {None, Some(EmailJohn), Some(EmailJohnCaps), Some(EmailJane)},
            phone : {None, Some(PhoneJohn), Some(PhoneJohnFormatted),
                     Some(PhoneJane), Some(PhoneShort)},
            full_name : {None, Some(NameJohn), Some(NameJohnSpaced), Some(NameJane)}] :
        ContactInfoValid(c)}

Metadatas ==
    [contact_email : {None, Some(<<>>), Some(EmailJohn), Some(EmailJane)},
     contact_phone : {None, Some(PhoneJohn), Some(PhoneJane), Some(PhoneShort)},
     contact_name : {None, Some(NameJohn), Some(NameJane)}]

\* The contact keys add_lead puts into the metadata of a record:
\* contact_name and contact_email when they are set; the phone is not
\* written.
ContactMetadata(contact) ==
    [contact_email |-> IF Truthy(contact.email) THEN contact.email ELSE None,
     contact_phone |-> None,
     contact_name |-> IF Truthy(contact.full_name) THEN contact.full_name ELSE None]

\* The metadata of the records add_lead stored for the contacts.
StoredMetadatas == {ContactMetadata(c) : c \in ContactInfos}

(***************************************************************************)
(* analyze_lead_for_duplicates                                             *)
(***************************************************************************)
\* DuplicateAnalysisResult.__init__; raised tells that the call ended with
\* an exception instead of a result.
DuplicateAnalysisResult(action, reason, related_leads, parent_lead_id, customer_sequence, time_since_last, message_similarity) ==
    [action |-> action,
     reason |-> reason,
     related_leads |-> related_leads,
     parent_lead_id |-> parent_lead_id,
     customer_sequence |-> customer_sequence,
     time_since_last |-> time_since_last,
     message_similarity |-> message_similarity,
     raised |-> FALSE]

NoResult ==
    [action |-> "none", reason |-> "none", related_leads |-> <<>>,
     parent_lead_id |-> None, customer_sequence |-> 0, time_since_last |-> None,
     message_similarity |-> None, raised |-> FALSE]

\* Mutation: the first lead is counted from zero.
FirstLeadResultFromZero ==
    DuplicateAnalysisResult("process", "first_lead", <<>>, None, 0, None, None)

\* "First lead from this contact": every other field keeps its default.
FirstLeadResult ==
    DuplicateAnalysisResult("process", "first_lead", <<>>, None, 1, None, None)

\* Seconds of time_diff for the most recent lead: now minus its receipt
\* time (an offset-naive time is taken as UTC, a missing key reads as the
\* epoch), or 25 hours when the text does not parse.
TimeDiffSeconds(e) ==
    LET r == e.metadata.received_at
    IN  IF r.ts_kind \in {"aware", "naive"} THEN r.age
        ELSE IF r.ts_kind = "missing" THEN NowEpoch
        ELSE FallbackHours * 3600

TimeSinceMinutes(e) == TruncDiv(TimeDiffSeconds(e), 60)

\* lead_id if isinstance(lead_id, UUID) else UUID(lead_id) succeeds.
IsUuid(e) == e.id_kind \in {"uuid", "str"}

\* The inner loop over sorted_history: invalid ids are skipped.
RECURSIVE RelatedIds(_)
RelatedIds(sorted) ==
    IF sorted = <<>> THEN <<>>
    ELSE IF IsUuid(Head(sorted))
    THEN <<Head(sorted).lead_id>> \o RelatedIds(Tail(sorted))
    ELSE RelatedIds(Tail(sorted))

\* The try block of the flag and link branches: an invalid parent id gives
\* parent_id None and no related ids.
ParentAndRelated(sorted) ==
    IF IsUuid(sorted[1])
    THEN [parent_id |-> Some(sorted[1].lead_id), related_ids |-> RelatedIds(sorted)]
    ELSE [parent_id |-> None, related_ids |-> <<>>]

IsSuspicious(cfg, minutes, similarity) ==
    /\ minutes < cfg.duplicate_suspicious_window_minutes
    /\ similarity > cfg.duplicate_suspicious_threshold
    /\ cfg.flag_suspicious_duplicates

IsRelated(cfg, minutes, similarity) ==
    /\ minutes < cfg.duplicate_time_window_hours * 60
    /\ similarity > cfg.duplicate_message_threshold
    /\ cfg.auto_link_related_leads

\* customer_sequence = len(contact_history) + 1, set before the matrix.
CustomerSequence(contact_history) == Len(contact_history) + 1

\* The decision matrix, once the time and the similarity are known.
Decide(cfg, contact_history, sorted, minutes, similarity) ==
    LET customer_sequence == CustomerSequence(contact_history)
        pr == ParentAndRelated(sorted)
    IN  IF IsSuspicious(cfg, minutes, similarity)
        THEN DuplicateAnalysisResult("flag", "suspicious_duplicate", pr.related_ids,
                 pr.parent_id, customer_sequence, Some(minutes), Some(similarity))
        ELSE IF IsRelated(cfg, minutes, similarity)
        THEN DuplicateAnalysisResult("link", "related_inquiry", pr.related_ids,
                 pr.parent_id, customer_sequence, Some(minutes), Some(similarity))
        ELSE DuplicateAnalysisResult("process", "new_inquiry", RelatedIds(sorted),
                 None, customer_sequence, Some(minutes), Some(similarity))

\* The body of the outer try block: [exc, result].
AnalyzeBody(cfg, message, contact_history, emb) ==
    IF contact_history = <<>>
    THEN [exc |-> "none", result |-> FirstLeadResult]
    ELSE IF SortException(contact_history) # "none"
    THEN [exc |-> SortException(contact_history), result |-> NoResult]
    ELSE LET sorted == SortedHistory(contact_history)
             most_recent_lead == sorted[1]
             sim == CalculateMessageSimilarity(message,
                        most_recent_lead.metadata.message, emb)
         IN  IF sim.exc # "none"
             THEN [exc |-> sim.exc, result |-> NoResult]
             ELSE [exc |-> "none",
                   result |-> Decide(cfg, contact_history, sorted,
                                  TimeSinceMinutes(most_recent_lead), sim.value)]

\* Mutation: the handler of the inner blocks, except (ValueError, TypeError).
CaughtByNarrowExcept(exc) == exc \in {"TypeError", "ValueError"}

\* except Exception: every exception of the body is caught.
CaughtByExcept(exc) == exc \in {"AttributeError", "TypeError", "ValueError"}

\* Mutation: the fallback keeps the default customer_sequence.
FallbackSequenceOne(contact_history) == 1

\* customer_sequence of the fallback result:
\* len(contact_history) + 1 if contact_history else 1.
FallbackSequence(contact_history) ==
    IF contact_history # <<>> THEN Len(contact_history) + 1 ELSE 1

AnalyzeLeadForDuplicates(cfg, message, contact_history, emb) ==
    LET body == AnalyzeBody(cfg, message, contact_history, emb)
    IN  IF body.exc = "none"
        THEN body.result
        ELSE IF CaughtByExcept(body.exc)
        THEN DuplicateAnalysisResult("process", "analysis_failed", <<>>, None,
                 FallbackSequence(contact_history), None, None)
        ELSE [NoResult EXCEPT !.raised = TRUE]

(***************************************************************************)
(* ChromaVectorService: the index of embedding records.                    *)
(***************************************************************************)
LeadIds == 1..4

MsgService == <<"s", "v", "c">>
MsgServiceCaps == <<" ", "S", "v", "c">>
MsgTires == <<"t", "y", "r">>

\* The fields of a lead that the vector service reads; company, custom
\* fields and AI analysis are absent.
VecLead(id, message, full_name, status) ==
    [id |-> id, message |-> message, full_name |-> full_name, status |-> status]

\* Two leads per id differ in message, contact name or status, so that an
\* update has something to replace.
VecLeads ==
    {VecLead(1, MsgService, None, "raw"),
     VecLead(1, MsgService, Some(NameJohn), "enriched"),
     VecLead(1, MsgTires, None, "enriched"),
     VecLead(2, MsgServiceCaps, None, "enriched"),
     VecLead(2, MsgTires, Some(NameJohn), "raw")}

NoVecLead == VecLead(0, <<>>, None, "none")

\* The leads a search is made for.
QueryLeads ==
    {VecLead(0, MsgService, None, "raw"),
     VecLead(0, MsgService, Some(NameJohn), "raw")}

\* " | ".join([message, "Contact: <full_name>"]) when the name is set.
PrepareLeadText(lead) ==
    IF Truthy(lead.full_name)
    THEN lead.message \o <<"|">> \o lead.full_name[1]
    ELSE lead.message

\* text.strip().lower()
NormalizedText(text) == Lower(Strip(text))

\* The sentence-transformer model on the normalised texts of the model:
\* unit vectors, in tenths.
Encode(normalized_text) ==
    CASE normalized_text = <<"s", "v", "c">> -> <<10, 0>>
      [] normalized_text = <<"s", "v", "c", "|", "j", "d">> -> <<8, 6>>
      [] normalized_text = <<"t", "y", "r">> -> <<0, 10>>
      [] OTHER -> <<-6, 8>>

\* _generate_embedding: [raised, embedding]; model_ok tells whether the
\* embedding model is loaded and encodes.
GenerateEmbedding(text, model_ok) ==
    IF ~model_ok \/ NormalizedText(text) = <<>>
    THEN [raised |-> TRUE, embedding |-> <<>>]
    ELSE [raised |-> FALSE, embedding |-> Encode(NormalizedText(text))]

\* The metadata add_lead stores: no contact_phone; contact_name only when
\* the name is set.
LeadMetadata(lead) ==
    [lead_id |-> lead.id,
     message |-> lead.message,
     status |-> lead.status,
     text_hash |-> NormalizedText(PrepareLeadText(lead)),
     contact_name |-> IF Truthy(lead.full_name) THEN lead.full_name ELSE None]

LeadRecord(lead, embedding) ==
    [embedding |-> embedding,
     document |-> PrepareLeadText(lead),
     metadata |-> LeadMetadata(lead)]

EmptyIndex == [id \in LeadIds |-> None]

\* collection.get(ids=[id])
CollectionGet(idx, id) == idx[id]

\* collection.add: an id that is already in the collection is ignored.
CollectionAdd(idx, id, record) ==
    IF idx[id] # None THEN idx ELSE [idx EXCEPT ![id] = Some(record)]

\* collection.delete(ids=[id])
CollectionDelete(idx, id) == [idx EXCEPT ![id] = None]

\* The distance of the collection's default space: squared L2, in
\* hundredths.
Distance(e1, e2) ==
    (e1[1] - e2[1]) * (e1[1] - e2[1]) + (e1[2] - e2[2]) * (e1[2] - e2[2])

StoredIds(idx) == {id \in LeadIds : idx[id] # None}

\* collection.query(n_results=n): the ids of the n nearest records, nearest
\* first; records at the same distance come in any order.
QueryResults(idx, query_embedding, n) ==
    LET ids == StoredIds(idx)
        k == Min(n, Cardinality(ids))
        d(id) == Distance(query_embedding, idx[id][1].embedding)
    IN  {q \in [1..k -> ids] :
            /\ \A i, j \in 1..k : i < j => q[i] # q[j] /\ d(q[i]) <= d(q[j])
            /\ \A id \in ids : (\A i \in 1..k : q[i] # id) =>
                  \A i \in 1..k : d(q[i]) <= d(id)}

\* add_lead: [index, raised, value].
AddLead(idx, lead, model_ok) ==
    LET emb == GenerateEmbedding(PrepareLeadText(lead), model_ok)
    IN  IF emb.raised
        THEN [index |-> idx, raised |-> TRUE, value |-> "ChromaDBError"]
        ELSE [index |-> CollectionAdd(idx, lead.id, LeadRecord(lead, emb.embedding)),
              raised |-> FALSE, value |-> "vector_data"]

\* Mutation: remove_lead reports True whether or not a record existed.
RemoveLeadAlwaysTrue(idx, lead_id) ==
    [index |-> CollectionDelete(idx, lead_id), raised |-> FALSE, value |-> "true"]

\* remove_lead: [index, raised, value].
RemoveLead(idx, lead_id) ==
    IF CollectionGet(idx, lead_id) = None
    THEN [index |-> idx, raised |-> FALSE, value |-> "false"]
    ELSE [index |-> CollectionDelete(idx, lead_id), raised |-> FALSE, value |-> "true"]

\* Mutation: update_lead adds without removing the existing entry.
UpdateLeadWithoutRemove(idx, lead, model_ok) == AddLead(idx, lead, model_ok)

\* update_lead: remove_lead, then add_lead on what is left.
UpdateLead(idx, lead, model_ok) == AddLead(RemoveLead(idx, lead.id).index, lead, model_ok)

\* threshold or self.similarity_threshold; limit or self.max_similar_leads
OrDefault(arg, default) == IF arg = None \/ arg[1] = 0 THEN default ELSE arg[1]

SimilarityResult(lead_id, similarity_score, record_metadata) ==
    [lead_id |-> lead_id, similarity_score |-> similarity_score, metadata |-> record_metadata]

\* The loop over the query results: score = 1 - distance, kept when the
\* score is not below the threshold.
RECURSIVE FilterByThreshold(_, _, _, _)
FilterByThreshold(idx, query_embedding, q, threshold) ==
    IF q = <<>> THEN <<>>
    ELSE LET record == idx[Head(q)][1]
             similarity_score == SimScale - Distance(query_embedding, record.embedding)
             rest == FilterByThreshold(idx, query_embedding, Tail(q), threshold)
         IN  IF similarity_score >= threshold
             THEN <<SimilarityResult(Head(q), similarity_score, record.metadata)>> \o rest
             ELSE rest

\* similar_leads.sort(key=similarity_score, reverse=True): stable.
SortByScore(similar_leads) ==
    LET n == Len(similar_leads)
        pos(i) == Cardinality({j \in 1..n :
                      \/ similar_leads[j].similarity_score > similar_leads[i].similarity_score
                      \/ /\ similar_leads[j].similarity_score = similar_leads[i].similarity_score
                         /\ j <= i})
    IN  [p \in 1..n |-> similar_leads[CHOOSE i \in 1..n : pos(i) = p]]

\* find_similar_leads for one answer q of the collection: [raised, value].
FindSimilarLeads(idx, lead, threshold, limit, model_ok, q) ==
    LET emb == GenerateEmbedding(PrepareLeadText(lead), model_ok)
    IN  IF emb.raised
        THEN [raised |-> TRUE, value |-> <<>>]
        ELSE [raised |-> FALSE,
              value |-> SortByScore(FilterByThreshold(idx, emb.embedding, q,
                            OrDefault(threshold, DefaultSimilarityThreshold)))]

\* The thresholds and limits a caller passes: None, zero and the values
\* around the scores of the model.
Thresholds == {None, Some(0), Some(50), Some(-150)}

Limits == {None, Some(0), Some(1)}

(***************************************************************************)
(* OllamaService.analyze_lead and its fallback analysis.                   *)
(***************************************************************************)
\* The fields of a LeadInput that the pipeline and the fallback analysis
\* read; the two keyword flags tell whether message.lower() contains one
\* of the urgent keywords, one of the appointment keywords.
LeadInput(message, full_name, urgent, appointment, has_contact_method) ==
    [message |-> message, full_name |-> full_name, urgent |-> urgent,
     appointment |-> appointment, has_contact_method |-> has_contact_method]

LeadInputJohn == LeadInput(MsgService, Some(NameJohn), FALSE, FALSE, TRUE)

LeadInputs ==
    {LeadInputJohn,
     LeadInput(MsgTires, None, TRUE, FALSE, FALSE),
     LeadInput(MsgServiceCaps, None, TRUE, TRUE, TRUE)}

NoLeadInput == LeadInput(<<>>, None, FALSE, FALSE, FALSE)

\* What the request to Ollama can come to.
LLMOutcomes == {"ok", "timeout", "request_error", "http_error", "invalid_json"}

\* _make_ollama_request: [raised, content].
MakeOllamaRequest(llm) ==
    CASE llm = "timeout" -> [raised |-> Some("LLMTimeoutError"), content |-> "none"]
      [] llm \in {"request_error", "http_error"} ->
            [raised |-> Some("LLMConnectionError"), content |-> "none"]
      [] llm = "invalid_json" -> [raised |-> None, content |-> "text"]
      [] OTHER -> [raised |-> None, content |-> "json"]

\* _parse_analysis_response on the JSON the model answered; the quality
\* score is clamped to 0..100.
ParseAnalysisResponse ==
    [kind |-> "llm", intent |-> "inquiry", urgency |-> "low",
     quality_score |-> Max(0, Min(100, 120)), model_used |-> <<"response_model">>]

\* _create_fallback_analysis(lead, processing_time, model, error)
CreateFallbackAnalysis(lead, model) ==
    [kind |-> "fallback",
     intent |-> IF lead.appointment THEN "appointment_request" ELSE "general",
     urgency |-> IF lead.urgent THEN "high" ELSE "medium",
     quality_score |->
         Min(100, FallbackQualityScore
                    + (IF lead.urgent THEN UrgentBoost ELSE 0)
                    + (IF lead.appointment THEN AppointmentBoost ELSE 0)
                    + (IF lead.has_contact_method THEN ContactBoost ELSE 0)),
     model_used |-> <<model, "fallback">>]

\* Mutation: analyze_lead lets the error of the request through.
AnalyzeLeadReraises(lead, llm) ==
    LET response == MakeOllamaRequest(llm)
    IN  IF response.raised # None
        THEN [raised |-> response.raised, value |-> CreateFallbackAnalysis(lead, "self_model")]
        ELSE IF response.content # "json"
        THEN [raised |-> None, value |-> CreateFallbackAnalysis(lead, "response_model")]
        ELSE [raised |-> None, value |-> ParseAnalysisResponse]

\* analyze_lead: [raised, value].  The inner except answers a response
\* that is not JSON, the outer except Exception answers everything else.
AnalyzeLead(lead, llm) ==
    LET response == MakeOllamaRequest(llm)
    IN  IF response.raised # None
        THEN [raised |-> None, value |-> CreateFallbackAnalysis(lead, "self_model")]
        ELSE IF response.content # "json"
        THEN [raised |-> None, value |-> CreateFallbackAnalysis(lead, "response_model")]
        ELSE [raised |-> None, value |-> ParseAnalysisResponse]

(***************************************************************************)
(* AirtableService: the records of the CRM table.                          *)
(***************************************************************************)
\* The table is the list of the records ever created; the id of a record
\* is its position, and a record deleted in Airtable leaves None behind.
EmptyTable == <<>>

RecordExists(tbl, record_id) == record_id \in 1..Len(tbl) /\ tbl[record_id] # None

\* The records the table holds for one lead.
RecordsOf(tbl, lead_id) == {k \in 1..Len(tbl) : tbl[k] = Some(lead_id)}

\* What a request to the Airtable API can come to, apart from NOT_FOUND,
\* which is the answer to an update of a record that is not there.
AirtableOutcomes == {"ok", "rate_limited", "api_error", "error"}

\* SyncRecord(lead_id, operation=CREATE, ...)
NewSyncRecord(lead_id) ==
    [lead_id |-> lead_id, operation |-> "create", status |-> "pending",
     airtable_record_id |-> None, error_message |-> None]

\* The exception a request that did not succeed is turned into.
RaisedFor(api) ==
    CASE api = "rate_limited" -> Some("AirtableRateLimitError")
      [] api = "api_error" -> Some("AirtableConnectionError")
      [] OTHER -> Some("CRMServiceError")

\* _create_new_record: [table, raised, sync_record].
CreateNewRecord(tbl, lead, sync_record, api) ==
    IF api = "ok"
    THEN [table |-> Append(tbl, Some(lead.id)), raised |-> None,
          sync_record |-> [sync_record EXCEPT !.status = "success",
                                              !.airtable_record_id = Some(Len(tbl) + 1)]]
    ELSE [table |-> tbl, raised |-> RaisedFor(api), sync_record |-> sync_record]

\* _update_existing_record: [table, raised, sync_record]; api2 is the
\* outcome of the create request made after NOT_FOUND.
UpdateExistingRecord(tbl, lead, sync_record, record_id, api, api2) ==
    IF api # "ok"
    THEN [table |-> tbl, raised |-> RaisedFor(api), sync_record |-> sync_record]
    ELSE IF RecordExists(tbl, record_id)
    THEN [table |-> [tbl EXCEPT ![record_id] = Some(lead.id)], raised |-> None,
          sync_record |-> [sync_record EXCEPT !.status = "success",
                                              !.airtable_record_id = Some(record_id)]]
    ELSE CreateNewRecord(tbl, lead, [sync_record EXCEPT !.operation = "create"], api2)

\* sync_lead: [table, sync_record]; every exception ends in a SyncRecord
\* marked failed.
SyncLead(tbl, lead, api, api2) ==
    LET sync_record == NewSyncRecord(lead.id)
        r == IF lead.external_id # None
             THEN UpdateExistingRecord(tbl, lead, [sync_record EXCEPT !.operation = "update"],
                                       lead.external_id[1], api, api2)
             ELSE CreateNewRecord(tbl, lead, sync_record, api)
    IN  IF r.raised # None
        THEN [table |-> r.table,
              sync_record |-> [r.sync_record EXCEPT
                                  !.status = "failed",
                                  !.error_message = Some(<<"Failed to sync lead", r.raised[1]>>)]]
        ELSE [table |-> r.table, sync_record |-> r.sync_record]

(***************************************************************************)
(* State: one call of the service per behaviour.                           *)
(***************************************************************************)
VARIABLES
    op,               \* "idle", or the operation that has run
    settings,         \* configuration of the analyzer
    new_lead,         \* analyze: [message, contact]
    contact_history,  \* analyze: the supplied history
    embedding,        \* analyze: outcome of the embedding model
    result,           \* analyze: the DuplicateAnalysisResult
    contact_info,     \* same_contact: the ContactInfo
    metadata,         \* same_contact: the metadata of the stored record
    same_contact,     \* same_contact: the value returned
    index,            \* vector service: the collection, id -> record
    call,             \* vector service: the latest call and its arguments
    returned,         \* vector service: [raised, value] of the latest call
    found,            \* vector service: the list find_similar_leads returned
    before,           \* vector service: the collection before the latest call
    prev,             \* vector service: the lead added by the call before the latest one
    procs,            \* vector service: the calls in progress side by side
    enriched_lead,    \* pipeline: the lead of each run of process_lead_pipeline
    pipeline,         \* pipeline: the position and the arguments of each run
    response,         \* intake: the response each submitter got
    uuids,            \* the number of lead ids generated so far
    table,            \* Airtable: the records of the table
    crm,              \* Airtable: the lead a caller syncs, and the latest SyncRecord
    limiter           \* Airtable: the clock and the rate limiter of the service

analyzer_vars == <<settings, new_lead, contact_history, embedding, result,
                   contact_info, metadata, same_contact>>

index_vars == <<index, call, returned, found, before, prev, procs>>

pipeline_vars == <<enriched_lead, pipeline, response, uuids>>

crm_vars == <<table, crm, limiter>>

vars == <<op, analyzer_vars, index_vars, pipeline_vars, crm_vars>>

NoContact == [email |-> None, phone |-> None, full_name |-> None]

NoMetadata == [contact_email |-> None, contact_phone |-> None, contact_name |-> None]

NoLead == [message |-> <<>>, contact |-> NoContact]

NoEmbedding == [kind |-> "unavailable", cos |-> 0]

\* The runs of the pipeline that can be in progress side by side.
Runs == {1, 2}

\* EnrichedLead(**lead_input.dict()): the fields of the input, a new id,
\* status RAW, nothing recorded yet.
NewEnrichedLead(id, lead_input) ==
    [id |-> id, message |-> lead_input.message, full_name |-> lead_input.full_name,
     status |-> "raw", processing_errors |-> <<>>, retry_count |-> 0,
     has_ai_analysis |-> FALSE, has_vector_data |-> FALSE, synced_to |-> None,
     ai_analysis |-> None, similar_leads |-> <<>>, external_id |-> None]

NoEnrichedLead == [NewEnrichedLead(0, NoLeadInput) EXCEPT !.status = "none"]

NoPipeline ==
    [pc |-> "none", background |-> FALSE, crm |-> FALSE, raised |-> None,
     lead_input |-> NoLeadInput, llm |-> "none", sync |-> "none", after |-> 0]

NoResponse == [status_code |-> 0, success |-> FALSE, lead_id |-> None]

\* held tells whether the lead held a record id at the latest sync, before
\* is the table as that sync found it.
NoCrm ==
    [lead |-> NoEnrichedLead, sync_record |-> NewSyncRecord(0), held |-> FALSE,
     before |-> EmptyTable]

Procs == {1, 2}

\* A caller of _rate_limit: the method it is in, where it stands, and
\* the time its sleep ends.
NoCaller == [name |-> "none", pc |-> "idle", wake |-> 0]

\* The clock of the event loop in tenths of a second, last_request_time,
\* the times at which a request was let through, and the callers.
NoLimiter ==
    [now |-> RateLimitDelay, last_request_time |-> 0, admitted |-> <<>>,
     callers |-> [p \in Procs |-> NoCaller]]

NoProc == [name |-> "none", lead |-> NoVecLead, pc |-> "done", value |-> "none"]

NoProcs == [p \in Procs |-> NoProc]

NoCall == [name |-> "none", lead |-> NoVecLead, threshold |-> None, limit |-> None]

NoReturn == [raised |-> FALSE, value |-> "none"]

Init ==
    /\ op = "idle"
    /\ settings \in Configs
    /\ new_lead = NoLead
    /\ contact_history = <<>>
    /\ embedding = NoEmbedding
    /\ result = NoResult
    /\ contact_info = NoContact
    /\ metadata = NoMetadata
    /\ same_contact = FALSE
    /\ index = EmptyIndex
    /\ call = NoCall
    /\ returned = NoReturn
    /\ found = <<>>
    /\ before = EmptyIndex
    /\ prev = NoVecLead
    /\ procs = NoProcs
    /\ enriched_lead = [r \in Runs |-> NoEnrichedLead]
    /\ pipeline = [r \in Runs |-> NoPipeline]
    /\ response = [r \in Runs |-> NoResponse]
    /\ uuids = 0
    /\ table = EmptyTable
    /\ crm = NoCrm
    /\ limiter = NoLimiter

\* The text the similarity is computed against, when the body gets there.
LastMessage(h) ==
    IF h # <<>> /\ SortException(h) = "none"
    THEN SortedHistory(h)[1].metadata.message
    ELSE None

Analyze ==
    /\ op = "idle"
    /\ \E m \in NewMessages, c \in {ContactJane}, shapes \in ShapeSeqs,
          hc \in {ContactJohn, ContactJane}, emb \in EmbedOutcomes :
          LET h == MakeHistory(shapes, hc)
          IN  /\ EmbedConsistent(m, LastMessage(h), emb)
              /\ (h = <<>> \/ LastMessage(h) = None) => emb = NoEmbedding
              /\ new_lead' = [message |-> m, contact |-> c]
              /\ contact_history' = h
              /\ embedding' = emb
              /\ result' = AnalyzeLeadForDuplicates(settings, m, h, emb)
    /\ op' = "analyze"
    /\ UNCHANGED <<settings, contact_info, metadata, same_contact, index_vars, pipeline_vars, crm_vars>>

\* One call of _is_same_contact_from_metadata.
SameContact ==
    /\ op = "idle"
    /\ \E c \in ContactInfos, md \in Metadatas \cup StoredMetadatas :
          /\ contact_info' = c
          /\ metadata' = md
          /\ same_contact' = IsSameContactFromMetadata(c, md)
    /\ op' = "same_contact"
    /\ UNCHANGED <<settings, new_lead, contact_history, embedding, result, index_vars, pipeline_vars, crm_vars>>

\* What the next call remembers of the latest one: the lead it added, when
\* it was an add_lead that returned.
Latest ==
    IF call.name = "add_lead" /\ ~returned.raised THEN call.lead ELSE NoVecLead

\* The vector service reads none of the analyzer's settings; its calls are
\* explored under the default configuration.
IndexCallEnabled ==
    /\ op \in {"idle", "index"}
    /\ settings = Config(DefaultTimeWindowHours, DefaultSuspiciousWindowMinutes, TRUE, TRUE)

\* One call of add_lead.
CallAddLead ==
    /\ IndexCallEnabled
    /\ \E lead \in VecLeads, model_ok \in BOOLEAN :
          LET r == AddLead(index, lead, model_ok)
          IN  /\ index' = r.index
              /\ call' = [NoCall EXCEPT !.name = "add_lead", !.lead = lead]
              /\ returned' = [raised |-> r.raised, value |-> r.value]
    /\ found' = <<>>
    /\ before' = index
    /\ prev' = Latest
    /\ op' = "index"
    /\ UNCHANGED <<analyzer_vars, procs, pipeline_vars, crm_vars>>

\* One call of update_lead; an exception of add_lead is raised again as
\* ChromaDBError after the removal has been done.
CallUpdateLead ==
    /\ IndexCallEnabled
    /\ \E lead \in VecLeads, model_ok \in BOOLEAN :
          LET r == UpdateLead(index, lead, model_ok)
          IN  /\ index' = r.index
              /\ call' = [NoCall EXCEPT !.name = "update_lead", !.lead = lead]
              /\ returned' = [raised |-> r.raised, value |-> r.value]
    /\ found' = <<>>
    /\ before' = index
    /\ prev' = Latest
    /\ op' = "index"
    /\ UNCHANGED <<analyzer_vars, procs, pipeline_vars, crm_vars>>

\* One call of remove_lead; the call is recorded with the id alone.
CallRemoveLead ==
    /\ IndexCallEnabled
    /\ \E lead_id \in LeadIds :
          LET r == RemoveLead(index, lead_id)
          IN  /\ index' = r.index
              /\ call' = [NoCall EXCEPT !.name = "remove_lead",
                                        !.lead = [NoVecLead EXCEPT !.id = lead_id]]
              /\ returned' = [raised |-> r.raised, value |-> r.value]
    /\ found' = <<>>
    /\ before' = index
    /\ prev' = Latest
    /\ op' = "index"
    /\ UNCHANGED <<analyzer_vars, procs, pipeline_vars, crm_vars>>

\* One call of find_similar_leads, for each answer the collection can give.
CallFindSimilarLeads ==
    /\ IndexCallEnabled
    /\ \E lead \in QueryLeads, threshold \in Thresholds, limit \in Limits, model_ok \in BOOLEAN :
          LET emb == GenerateEmbedding(PrepareLeadText(lead), model_ok)
              n == OrDefault(limit, DefaultMaxSimilarLeads)
          IN  \E q \in IF emb.raised THEN {<<>>} ELSE QueryResults(index, emb.embedding, n) :
                LET r == FindSimilarLeads(index, lead, threshold, limit, model_ok, q)
                IN  /\ call' = [name |-> "find_similar_leads", lead |-> lead,
                                threshold |-> threshold, limit |-> limit]
                    /\ returned' = [raised |-> r.raised,
                                    value |-> IF r.raised THEN "ChromaDBError" ELSE "list"]
                    /\ found' = r.value
    /\ before' = index
    /\ prev' = Latest
    /\ op' = "index"
    /\ UNCHANGED <<index, analyzer_vars, procs, pipeline_vars, crm_vars>>

(***************************************************************************)
(* EnrichedLead, submit_lead and process_lead_pipeline.                    *)
(***************************************************************************)
MarkProcessing(lead) == [lead EXCEPT !.status = "processing"]

MarkEnriched(lead, ai_analysis) ==
    [lead EXCEPT !.status = "enriched", !.has_ai_analysis = TRUE,
                 !.ai_analysis = Some(ai_analysis)]

MarkSynced(lead, system, external_id) ==
    [lead EXCEPT !.status = "synced", !.synced_to = Some(system),
                 !.external_id = Some(external_id)]

MarkFailed(lead, error_msg) ==
    [lead EXCEPT !.status = "failed",
                 !.processing_errors = Append(@, error_msg),
                 !.retry_count = @ + 1]

\* error_msg = f"Pipeline processing failed: {str(e)}"
ErrorMsg(e) == <<"Pipeline processing failed", e>>

\* Mutation: the except branch puts the lead back to raw for a retry.
PipelineFailsAndResets(r, e) ==
    /\ enriched_lead' = [enriched_lead EXCEPT ![r].status = "raw"]
    /\ pipeline' = [pipeline EXCEPT ![r].pc = "raised", ![r].raised = Some(e)]

\* The except branch: mark_failed(error_msg), then raise.
PipelineFails(r, e) ==
    /\ enriched_lead' = [enriched_lead EXCEPT ![r] = MarkFailed(@, ErrorMsg(e))]
    /\ pipeline' = [pipeline EXCEPT ![r].pc = "raised", ![r].raised = Some(e)]

PipelineAt(r, pc) == op \in {"pipeline", "batch"} /\ pipeline[r].pc = pc

\* What no step of a submission touches.
PipelineUnchanged ==
    UNCHANGED <<analyzer_vars, call, returned, found, before, prev, procs, crm, limiter>>

\* The message is blank: not lead_input.message.strip()
BlankMessage(lead_input) == Strip(lead_input.message) = <<>>

\* The submissions: the leads of the pipeline and one with a blank message.
Submissions == LeadInputs \cup {LeadInput(<<" ">>, Some(NameJane), FALSE, FALSE, TRUE)}

\* The settings are those of the process: submissions made side by side
\* see the same ones, and come from different contacts.
SameSettings(r, background, crm_configured, lead_input) ==
    \A q \in Runs \ {r} :
        pipeline[q].pc # "none" =>
            /\ pipeline[q].background = background
            /\ pipeline[q].crm = crm_configured
            /\ pipeline[q].lead_input # lead_input

\* submit_lead up to the point where the task is queued or the pipeline
\* is awaited: 400 for a blank message; otherwise an EnrichedLead is made
\* for the response, and with background tasks enabled the response is
\* 202 with the id of that lead.
SubmitLead(r) ==
    /\ pipeline[r].pc = "none"
    /\ op = "batch" \/ (op = "idle" /\ r = 1)
    /\ \E lead_input \in Submissions, background \in BOOLEAN, crm_configured \in BOOLEAN :
          /\ SameSettings(r, background, crm_configured, lead_input)
          /\ IF BlankMessage(lead_input)
             THEN /\ response' = [response EXCEPT ![r] =
                         [status_code |-> 400, success |-> FALSE, lead_id |-> None]]
                  /\ pipeline' = [pipeline EXCEPT ![r] =
                         [NoPipeline EXCEPT !.pc = "rejected", !.background = background,
                                            !.crm = crm_configured, !.lead_input = lead_input]]
                  /\ UNCHANGED uuids
             ELSE /\ uuids' = uuids + 1
                  /\ response' = [response EXCEPT ![r] =
                         IF background
                         THEN [status_code |-> 202, success |-> TRUE,
                               lead_id |-> Some(NewEnrichedLead(uuids + 1, lead_input).id)]
                         ELSE NoResponse]
                  /\ pipeline' = [pipeline EXCEPT ![r] =
                         [NoPipeline EXCEPT !.pc = "create", !.background = background,
                                            !.crm = crm_configured, !.lead_input = lead_input]]
    /\ op' = IF op = "idle" THEN "pipeline" ELSE op
    /\ UNCHANGED <<enriched_lead, index, table>>
    /\ PipelineUnchanged

\* submit_leads_batch: an EnrichedLead is made for each lead of the batch
\* to get an id for the response, then one background task per lead is
\* queued; the tasks of one request run one after the other.
SubmitLeadsBatch ==
    /\ op = "batch"
    /\ \A r \in Runs : pipeline[r].pc = "none"
    /\ \E leads \in [Runs -> LeadInputs], crm_configured \in BOOLEAN :
          /\ \A r, q \in Runs : r # q => leads[r] # leads[q]
          /\ response' = [r \in Runs |->
                 [status_code |-> 202, success |-> TRUE,
                  lead_id |-> Some(NewEnrichedLead(uuids + r, leads[r]).id)]]
          /\ pipeline' = [r \in Runs |->
                 [NoPipeline EXCEPT !.pc = "create", !.background = TRUE,
                                    !.crm = crm_configured, !.lead_input = leads[r],
                                    !.after = r - 1]]
    /\ uuids' = uuids + Cardinality(Runs)
    /\ UNCHANGED <<op, enriched_lead, index, table>>
    /\ PipelineUnchanged

\* The task queued before this one by the same request is over.
TaskTurn(r) ==
    pipeline[r].after \in Runs => pipeline[pipeline[r].after].pc = "logged"

\* enriched_lead = EnrichedLead(**lead_input.dict()): the pipeline makes
\* its own lead from the input.
PipelineCreate(r) ==
    /\ PipelineAt(r, "create")
    /\ TaskTurn(r)
    /\ enriched_lead' = [enriched_lead EXCEPT ![r] =
                            NewEnrichedLead(uuids + 1, pipeline[r].lead_input)]
    /\ uuids' = uuids + 1
    /\ pipeline' = [pipeline EXCEPT ![r].pc = "mark_processing"]
    /\ UNCHANGED <<op, response, index, table>>
    /\ PipelineUnchanged

PipelineMarkProcessing(r) ==
    /\ PipelineAt(r, "mark_processing")
    /\ enriched_lead' = [enriched_lead EXCEPT ![r] = MarkProcessing(@)]
    /\ pipeline' = [pipeline EXCEPT ![r].pc = "find_similar_leads"]
    /\ UNCHANGED <<op, response, uuids, index, table>>
    /\ PipelineUnchanged

\* [result.lead_id for result in similar_leads]
SimilarLeadIds(similar_leads) ==
    [k \in 1..Len(similar_leads) |-> similar_leads[k].lead_id]

\* Step 1: await vector_service.find_similar_leads(lead_input, threshold,
\* limit) with the values of the settings; the ids found are put on the
\* lead when there are any.
PipelineFindSimilarLeads(r) ==
    /\ PipelineAt(r, "find_similar_leads")
    /\ \E model_ok \in BOOLEAN :
          LET lead == pipeline[r].lead_input
              emb == GenerateEmbedding(PrepareLeadText(lead), model_ok)
          IN  \E q \in IF emb.raised THEN {<<>>}
                       ELSE QueryResults(index, emb.embedding, DefaultMaxSimilarLeads) :
                LET similar_leads == FindSimilarLeads(index, lead,
                                         Some(DefaultSimilarityThreshold),
                                         Some(DefaultMaxSimilarLeads), model_ok, q)
                IN  IF similar_leads.raised
                    THEN PipelineFails(r, "Similarity search failed")
                    ELSE /\ enriched_lead' = [enriched_lead EXCEPT ![r].similar_leads =
                                SimilarLeadIds(similar_leads.value)]
                         /\ pipeline' = [pipeline EXCEPT ![r].pc = "analyze_lead"]
    /\ UNCHANGED <<op, response, uuids, index, table>>
    /\ PipelineUnchanged

\* Step 2: await llm_service.analyze_lead(lead_input); mark_enriched(ai_analysis)
PipelineAnalyzeLead(r) ==
    /\ PipelineAt(r, "analyze_lead")
    /\ \E llm \in LLMOutcomes :
          LET ai_analysis == AnalyzeLead(pipeline[r].lead_input, llm)
          IN  IF ai_analysis.raised # None
              THEN PipelineFails(r, ai_analysis.raised[1])
              ELSE /\ enriched_lead' = [enriched_lead EXCEPT ![r] =
                          MarkEnriched(@, ai_analysis.value)]
                   /\ pipeline' = [pipeline EXCEPT ![r].pc = "add_lead", ![r].llm = llm]
    /\ UNCHANGED <<op, response, uuids, index, table>>
    /\ PipelineUnchanged

\* Step 3: await vector_service.add_lead(enriched_lead)
PipelineAddLead(r) ==
    /\ PipelineAt(r, "add_lead")
    /\ \E model_ok \in BOOLEAN :
          LET vector_data == AddLead(index, enriched_lead[r], model_ok)
          IN  IF vector_data.raised
              THEN PipelineFails(r, "Failed to add lead") /\ UNCHANGED index
              ELSE /\ index' = vector_data.index
                   /\ enriched_lead' = [enriched_lead EXCEPT ![r].has_vector_data = TRUE]
                   /\ pipeline' = [pipeline EXCEPT ![r].pc =
                          IF pipeline[r].crm THEN "sync_lead" ELSE "log"]
    /\ UNCHANGED <<op, response, uuids, table>>
    /\ PipelineUnchanged

\* Step 4: await crm_service.sync_lead(enriched_lead); mark_synced when the
\* SyncRecord says success, a warning in the log otherwise.
PipelineSyncLead(r) ==
    /\ PipelineAt(r, "sync_lead")
    /\ Len(table) < MaxRecords
    /\ \E api \in AirtableOutcomes :
          LET sync_result == SyncLead(table, enriched_lead[r], api, api).sync_record
          IN  /\ table' = SyncLead(table, enriched_lead[r], api, api).table
              /\ enriched_lead' = [enriched_lead EXCEPT ![r] =
                     IF sync_result.status = "success"
                     THEN MarkSynced(@, "airtable", sync_result.airtable_record_id[1])
                     ELSE @]
              /\ pipeline' = [pipeline EXCEPT ![r].pc = "log",
                                              ![r].sync = sync_result.status]
    /\ UNCHANGED <<op, response, uuids, index>>
    /\ PipelineUnchanged

\* The closing log line reads ai_analysis.quality_score and
\* ai_analysis.intent.value inside the try block, then the lead is returned.
PipelineReturn(r) ==
    /\ PipelineAt(r, "log")
    /\ \/ /\ pipeline' = [pipeline EXCEPT ![r].pc = "returned"]
          /\ UNCHANGED enriched_lead
       \/ PipelineFails(r, "AttributeError")
    /\ UNCHANGED <<op, response, uuids, index, table>>
    /\ PipelineUnchanged

\* submit_lead with background tasks disabled, after the awaited pipeline:
\* 201 with the id of the lead the pipeline returned, or the except
\* Exception branch and 500.
SubmitLeadRespond(r) ==
    /\ ~pipeline[r].background
    /\ PipelineAt(r, "returned") \/ PipelineAt(r, "raised")
    /\ response' = [response EXCEPT ![r] =
           IF pipeline[r].pc = "returned"
           THEN [status_code |-> 201, success |-> TRUE, lead_id |-> Some(enriched_lead[r].id)]
           ELSE [status_code |-> 500, success |-> FALSE, lead_id |-> None]]
    /\ pipeline' = [pipeline EXCEPT ![r].pc = "responded"]
    /\ UNCHANGED <<op, enriched_lead, uuids, index, table>>
    /\ PipelineUnchanged

\* process_lead_background after the awaited pipeline: a line in the log,
\* whether the pipeline returned or raised.
ProcessLeadBackground(r) ==
    /\ pipeline[r].background
    /\ PipelineAt(r, "returned") \/ PipelineAt(r, "raised")
    /\ pipeline' = [pipeline EXCEPT ![r].pc = "logged"]
    /\ UNCHANGED <<op, enriched_lead, response, uuids, index, table>>
    /\ PipelineUnchanged

(***************************************************************************)
(* Calls of AirtableService.sync_lead on one lead.                         *)
(***************************************************************************)
CrmUnchanged ==
    UNCHANGED <<analyzer_vars, index_vars, pipeline_vars, limiter>>

\* One call of sync_lead on the lead the caller holds.
CallSyncLead ==
    /\ op \in {"idle", "crm"}
    /\ Len(table) < MaxRecords
    /\ \E api \in AirtableOutcomes, api2 \in AirtableOutcomes :
          LET lead == IF op = "idle" THEN NewEnrichedLead(1, LeadInputJohn) ELSE crm.lead
              r == SyncLead(table, lead, api, api2)
          IN  /\ table' = r.table
              /\ crm' = [lead |-> lead, sync_record |-> r.sync_record,
                         held |-> lead.external_id # None, before |-> table]
    /\ op' = "crm"
    /\ CrmUnchanged

\* The caller puts the record id of a successful sync on the lead, as
\* the pipeline does.
CallMarkSynced ==
    /\ op = "crm"
    /\ crm.sync_record.status = "success"
    /\ crm.lead.external_id # crm.sync_record.airtable_record_id
    /\ crm' = [crm EXCEPT !.lead = MarkSynced(@, "airtable", crm.sync_record.airtable_record_id[1])]
    /\ UNCHANGED <<op, table>>
    /\ CrmUnchanged

\* Someone deletes a record in the Airtable base.
AirtableDelete ==
    /\ op = "crm"
    /\ \E record_id \in 1..Len(table) :
          /\ table[record_id] # None
          /\ table' = [table EXCEPT ![record_id] = None]
    /\ UNCHANGED <<op, crm>>
    /\ CrmUnchanged

Next ==
    \/ Analyze
    \/ SameContact
    \/ CallAddLead
    \/ CallUpdateLead
    \/ CallRemoveLead
    \/ CallFindSimilarLeads
    \/ \E r \in Runs : SubmitLead(r)
    \/ \E r \in Runs : PipelineCreate(r)
    \/ \E r \in Runs : PipelineMarkProcessing(r)
    \/ \E r \in Runs : PipelineFindSimilarLeads(r)
    \/ \E r \in Runs : PipelineAnalyzeLead(r)
    \/ \E r \in Runs : PipelineAddLead(r)
    \/ \E r \in Runs : PipelineSyncLead(r)
    \/ \E r \in Runs : PipelineReturn(r)
    \/ \E r \in Runs : SubmitLeadRespond(r)
    \/ \E r \in Runs : ProcessLeadBackground(r)
    \/ CallSyncLead
    \/ CallMarkSynced
    \/ AirtableDelete

Spec == Init /\ [][Next]_vars

(***************************************************************************)
(* Submissions side by side: the requests are coroutines of one event      *)
(* loop, and a run of the pipeline gives way at its awaits.                *)
(***************************************************************************)
InitBatch ==
    /\ op = "batch"
    /\ settings = Config(DefaultTimeWindowHours, DefaultSuspiciousWindowMinutes, TRUE, TRUE)
    /\ new_lead = NoLead
    /\ contact_history = <<>>
    /\ embedding = NoEmbedding
    /\ result = NoResult
    /\ contact_info = NoContact
    /\ metadata = NoMetadata
    /\ same_contact = FALSE
    /\ index = EmptyIndex
    /\ call = NoCall
    /\ returned = NoReturn
    /\ found = <<>>
    /\ before = EmptyIndex
    /\ prev = NoVecLead
    /\ procs = NoProcs
    /\ enriched_lead = [r \in Runs |-> NoEnrichedLead]
    /\ pipeline = [r \in Runs |-> NoPipeline]
    /\ response = [r \in Runs |-> NoResponse]
    /\ uuids = 0
    /\ table = EmptyTable
    /\ crm = NoCrm
    /\ limiter = NoLimiter

NextBatch ==
    \/ SubmitLeadsBatch
    \/ \E r \in Runs :
        \/ SubmitLead(r)
        \/ PipelineCreate(r)
        \/ PipelineMarkProcessing(r)
        \/ PipelineFindSimilarLeads(r)
        \/ PipelineAnalyzeLead(r)
        \/ PipelineAddLead(r)
        \/ PipelineSyncLead(r)
        \/ PipelineReturn(r)
        \/ SubmitLeadRespond(r)
        \/ ProcessLeadBackground(r)

SpecBatch == InitBatch /\ [][NextBatch]_vars

(***************************************************************************)
(* AirtableService._rate_limit under callers side by side: coroutines of   *)
(* one event loop, which give way at await asyncio.sleep and nowhere else  *)
(* between the reading of last_request_time and the request.               *)
(***************************************************************************)
RateLimitedCalls == {"sync_lead", "update_lead", "health_check"}

InitRateLimit ==
    /\ op = "rate_limit"
    /\ settings = Config(DefaultTimeWindowHours, DefaultSuspiciousWindowMinutes, TRUE, TRUE)
    /\ new_lead = NoLead
    /\ contact_history = <<>>
    /\ embedding = NoEmbedding
    /\ result = NoResult
    /\ contact_info = NoContact
    /\ metadata = NoMetadata
    /\ same_contact = FALSE
    /\ index = EmptyIndex
    /\ call = NoCall
    /\ returned = NoReturn
    /\ found = <<>>
    /\ before = EmptyIndex
    /\ prev = NoVecLead
    /\ procs = NoProcs
    /\ enriched_lead = [r \in Runs |-> NoEnrichedLead]
    /\ pipeline = [r \in Runs |-> NoPipeline]
    /\ response = [r \in Runs |-> NoResponse]
    /\ uuids = 0
    /\ table = EmptyTable
    /\ crm = NoCrm
    /\ limiter = NoLimiter

RateLimitUnchanged ==
    UNCHANGED <<op, analyzer_vars, index_vars, pipeline_vars, table, crm>>

\* self.last_request_time = loop.time(), and the request that follows
\* without an await in between.
Admit(p) ==
    [limiter EXCEPT !.last_request_time = limiter.now,
                    !.admitted = Append(@, limiter.now),
                    !.callers[p].pc = "idle"]

\* _rate_limit up to its await: the caller goes through when the delay
\* has passed since last_request_time, and sleeps for the rest of the
\* delay otherwise.
RateLimitEnter(p) ==
    /\ op = "rate_limit"
    /\ limiter.callers[p].pc = "idle"
    /\ Len(limiter.admitted) < MaxRequests
    /\ \E name \in RateLimitedCalls :
          LET current_time == limiter.now
              time_since_last_request == current_time - limiter.last_request_time
              wait_time == RateLimitDelay - time_since_last_request
          IN  IF time_since_last_request < RateLimitDelay
              THEN limiter' = [limiter EXCEPT !.callers[p] =
                       [name |-> name, pc |-> "sleeping", wake |-> current_time + wait_time]]
              ELSE limiter' = [Admit(p) EXCEPT !.callers[p].name = name]
    /\ RateLimitUnchanged

\* _rate_limit after asyncio.sleep(wait_time) has returned.
RateLimitWake(p) ==
    /\ op = "rate_limit"
    /\ limiter.callers[p].pc = "sleeping"
    /\ limiter.now >= limiter.callers[p].wake
    /\ limiter' = Admit(p)
    /\ RateLimitUnchanged

\* The clock of the event loop goes on.
Tick ==
    /\ op = "rate_limit"
    /\ limiter.now < MaxClock
    /\ limiter' = [limiter EXCEPT !.now = @ + 1]
    /\ RateLimitUnchanged

NextRateLimit ==
    \/ \E p \in Procs : RateLimitEnter(p)
    \/ \E p \in Procs : RateLimitWake(p)
    \/ Tick

SpecRateLimit == InitRateLimit /\ [][NextRateLimit]_vars

(***************************************************************************)
(* Calls on one lead id side by side.  The service holds no lock: a call   *)
(* is a sequence of collection calls, and the collection calls of two      *)
(* callers (threads, or worker processes on one persist directory)         *)
(* interleave.                                                             *)
(***************************************************************************)
SharedId == 1

\* A call at its first collection call.
Proc(name, lead) ==
    [name |-> name, lead |-> lead,
     pc |-> IF name = "add_lead" THEN "add" ELSE "get", value |-> "none"]

MutatingCalls ==
    {Proc("add_lead", lead) : lead \in {l \in VecLeads : l.id = SharedId}}
        \cup {Proc("update_lead", lead) : lead \in {l \in VecLeads : l.id = SharedId}}
        \cup {Proc("remove_lead", [NoVecLead EXCEPT !.id = SharedId])}

\* The collection before the calls: empty, or a record under the id.
SeedIndexes ==
    {EmptyIndex}
        \cup {AddLead(EmptyIndex, lead, TRUE).index : lead \in {l \in VecLeads : l.id = SharedId}}

InitConcurrent ==
    /\ op = "concurrent"
    /\ settings = Config(DefaultTimeWindowHours, DefaultSuspiciousWindowMinutes, TRUE, TRUE)
    /\ new_lead = NoLead
    /\ contact_history = <<>>
    /\ embedding = NoEmbedding
    /\ result = NoResult
    /\ contact_info = NoContact
    /\ metadata = NoMetadata
    /\ same_contact = FALSE
    /\ index \in SeedIndexes
    /\ before = index
    /\ call = NoCall
    /\ returned = NoReturn
    /\ found = <<>>
    /\ prev = NoVecLead
    /\ procs \in [Procs -> MutatingCalls]
    /\ enriched_lead = [r \in Runs |-> NoEnrichedLead]
    /\ pipeline = [r \in Runs |-> NoPipeline]
    /\ response = [r \in Runs |-> NoResponse]
    /\ uuids = 0
    /\ table = EmptyTable
    /\ crm = NoCrm
    /\ limiter = NoLimiter

ConcurrentUnchanged ==
    UNCHANGED <<op, analyzer_vars, call, returned, found, before, prev, pipeline_vars, crm_vars>>

\* remove_lead, also inside update_lead: existing = collection.get(ids).
GetStep(p) ==
    /\ procs[p].pc = "get"
    /\ LET existing == CollectionGet(index, procs[p].lead.id)
       IN  procs' = [procs EXCEPT ![p] =
               IF existing # None
               THEN [@ EXCEPT !.pc = "delete"]
               ELSE IF @.name = "remove_lead"
               THEN [@ EXCEPT !.pc = "done", !.value = "false"]
               ELSE [@ EXCEPT !.pc = "add"]]
    /\ UNCHANGED index
    /\ ConcurrentUnchanged

\* remove_lead, also inside update_lead: collection.delete(ids).
DeleteStep(p) ==
    /\ procs[p].pc = "delete"
    /\ index' = CollectionDelete(index, procs[p].lead.id)
    /\ procs' = [procs EXCEPT ![p] =
           IF @.name = "remove_lead"
           THEN [@ EXCEPT !.pc = "done", !.value = "true"]
           ELSE [@ EXCEPT !.pc = "add"]]
    /\ ConcurrentUnchanged

\* add_lead, also inside update_lead: collection.add(...).
AddStep(p) ==
    /\ procs[p].pc = "add"
    /\ index' = AddLead(index, procs[p].lead, TRUE).index
    /\ procs' = [procs EXCEPT ![p] = [@ EXCEPT !.pc = "done", !.value = "vector_data"]]
    /\ ConcurrentUnchanged

NextConcurrent == \E p \in Procs : GetStep(p) \/ DeleteStep(p) \/ AddStep(p)

SpecConcurrent == InitConcurrent /\ [][NextConcurrent]_vars

(***************************************************************************)
(* What the claims speak about: the most recent prior lead of the supplied *)
(* history (the first entry, in the supplied order, among those with the   *)
(* latest receipt time; an offset-naive time is UTC), the whole minutes    *)
(* since then, and the similarity of the new message to its message.       *)
(***************************************************************************)
Timed(e) == e.metadata.received_at.ts_kind \in {"aware", "naive"}

AgeOf(e) == e.metadata.received_at.age

LatestIndex(h) ==
    CHOOSE i \in 1..Len(h) :
        /\ Timed(h[i])
        /\ \A j \in 1..Len(h) :
              Timed(h[j]) =>
                  \/ AgeOf(h[i]) < AgeOf(h[j])
                  \/ AgeOf(h[i]) = AgeOf(h[j]) /\ i <= j

LatestLead == contact_history[LatestIndex(contact_history)]

SimilarityToLatest ==
    CalculateMessageSimilarity(new_lead.message, LatestLead.metadata.message, embedding)

\* A call on a non-empty history whose most recent lead, the time since it
\* and the similarity to it are all defined.
AnalyzedWithLatest ==
    /\ op = "analyze"
    /\ contact_history # <<>>
    /\ \E i \in 1..Len(contact_history) : Timed(contact_history[i])
    /\ SimilarityToLatest.exc = "none"

MinutesSinceLatest ==
    IF AgeOf(LatestLead) >= 0
    THEN AgeOf(LatestLead) \div 60
    ELSE -((-AgeOf(LatestLead)) \div 60)

SuspiciousCondition ==
    /\ MinutesSinceLatest < settings.duplicate_suspicious_window_minutes
    /\ SimilarityToLatest.value > settings.duplicate_suspicious_threshold
    /\ settings.flag_suspicious_duplicates

LinkCondition ==
    /\ MinutesSinceLatest < settings.duplicate_time_window_hours * 60
    /\ SimilarityToLatest.value > settings.duplicate_message_threshold
    /\ settings.auto_link_related_leads

\* C1: on a non-empty history with flagging enabled, a most recent prior
\* lead inside the suspicious window with a similarity above the suspicious
\* threshold gives flag, that lead as parent and as many related leads as
\* the history has entries.
C1Claim ==
    (AnalyzedWithLatest /\ SuspiciousCondition)
        => /\ result.action = "flag"
           /\ result.parent_lead_id = Some(LatestLead.lead_id)
           /\ Len(result.related_leads) = Len(contact_history)

\* C2: an input that satisfies both the suspicious and the link condition
\* is flagged, never linked.
C2Claim ==
    (AnalyzedWithLatest /\ SuspiciousCondition /\ LinkCondition)
        => result.action = "flag" /\ result.action # "link"

\* C3: when the flag rule does not fire and the link condition holds, the
\* result is link with the most recent prior lead as parent.
C3Claim ==
    (AnalyzedWithLatest /\ ~SuspiciousCondition /\ LinkCondition)
        => /\ result.action = "link"
           /\ result.parent_lead_id = Some(LatestLead.lead_id)

\* C4: when neither rule fires the result is process without parent and
\* time_since_last is the whole minutes since the entry with the latest
\* receipt time, in whatever order the history was supplied.
C4Claim ==
    (AnalyzedWithLatest /\ ~SuspiciousCondition /\ ~LinkCondition)
        => /\ result.action = "process"
           /\ result.parent_lead_id = None
           /\ result.time_since_last = Some(MinutesSinceLatest)

\* C5: an empty history gives process, customer_sequence 1, no parent, no
\* related leads, no time_since_last and no message_similarity.
C5Theorem ==
    (op = "analyze" /\ contact_history = <<>>)
        => /\ result.action = "process"
           /\ result.customer_sequence = 1
           /\ result.parent_lead_id = None
           /\ result.related_leads = <<>>
           /\ result.time_since_last = None
           /\ result.message_similarity = None
           /\ ~result.raised

C5Witness ==
    /\ op = "analyze"
    /\ contact_history = <<>>
    /\ result.action = "process"
    /\ new_lead.message # <<>>

\* The failures the claim C6 lists, each taken as the failure of a step of
\* the analysis: no usable receipt time on the most recent lead (unparsable
\* text, no key, None), a comparison error while sorting, a similarity
\* that cannot be computed.
ListedFailure ==
    /\ contact_history # <<>>
    /\ \/ \A i \in 1..Len(contact_history) : ~Timed(contact_history[i])
       \/ SortException(contact_history) # "none"
       \/ LastMessage(contact_history) = None

\* C6: the call never raises and every listed internal failure gives
\* process, never flag or link.
C6Claim ==
    op = "analyze"
        => /\ ~result.raised
           /\ ListedFailure => result.action = "process"

\* An exception leaves the body of the try block: a receipt time that is
\* None, a comparison of an offset-naive with an offset-aware time while
\* sorting, or a similarity computed against a message that is None.
BodyRaises ==
    /\ contact_history # <<>>
    /\ \/ \E i \in 1..Len(contact_history) :
             contact_history[i].metadata.received_at.ts_kind = "none"
       \/ \E i, j \in 1..Len(contact_history) :
             /\ contact_history[i].metadata.received_at.ts_kind = "naive"
             /\ contact_history[j].metadata.received_at.ts_kind # "naive"
       \/ LastMessage(contact_history) = None

\* The call never raises; when an exception leaves the body the result is
\* the fallback: process, no parent, no related leads, no time_since_last,
\* no message_similarity, customer_sequence one more than the history
\* length.  Otherwise the decision matrix applies.
FallbackLemma ==
    op = "analyze"
        => /\ ~result.raised
           /\ result.action \in {"process", "link", "flag"}
           /\ BodyRaises =>
                 /\ result.action = "process"
                 /\ result.parent_lead_id = None
                 /\ result.related_leads = <<>>
                 /\ result.time_since_last = None
                 /\ result.message_similarity = None
                 /\ result.customer_sequence = Len(contact_history) + 1
           /\ (contact_history # <<>> /\ ~BodyRaises) => result.time_since_last # None

\* A history of an offset-naive and an unparsable receipt time: sorting
\* raises TypeError and the call still returns process.
FallbackReached ==
    /\ op = "analyze"
    /\ Len(contact_history) = 2
    /\ contact_history[1].metadata.received_at.ts_kind = "naive"
    /\ contact_history[2].metadata.received_at.ts_kind = "bad"
    /\ result.action = "process"
    /\ result.reason = "analysis_failed"

\* The contact of the new lead differs from the contact of a stored record
\* in email, phone and name.
ContactDiffers(c, md) ==
    /\ Truthy(c.email) /\ Truthy(md.contact_email)
    /\ Lower(c.email[1]) # Lower(md.contact_email[1])
    /\ Truthy(c.phone) /\ Truthy(md.contact_phone)
    /\ Digits(c.phone[1]) # Digits(md.contact_phone[1])
    /\ Truthy(c.full_name) /\ Truthy(md.contact_name)
    /\ Strip(Lower(c.full_name[1])) # Strip(Lower(md.contact_name[1]))

\* C7: a new lead whose contact differs in email, phone and name from every
\* entry of the supplied history gets process with customer_sequence 1.
C7Claim ==
    (/\ op = "analyze"
     /\ \A i \in 1..Len(contact_history) :
           ContactDiffers(new_lead.contact, contact_history[i].metadata))
        => result.action = "process" /\ result.customer_sequence = 1

BothHaveEmail == Truthy(contact_info.email) /\ Truthy(metadata.contact_email)

BothHavePhone == Truthy(contact_info.phone) /\ Truthy(metadata.contact_phone)

SameLastDigits ==
    LET d1 == Digits(contact_info.phone[1])
        d2 == Digits(metadata.contact_phone[1])
        t1 == IF Len(d1) <= PhoneDigits THEN d1 ELSE SubSeq(d1, Len(d1) - PhoneDigits + 1, Len(d1))
        t2 == IF Len(d2) <= PhoneDigits THEN d2 ELSE SubSeq(d2, Len(d2) - PhoneDigits + 1, Len(d2))
    IN  t1 = t2

\* C9 as claimed: with a phone on both sides and not an email on both, the
\* answer is exactly the equality of the last ten digits.
C9Claim ==
    (op = "same_contact" /\ BothHavePhone /\ ~BothHaveEmail)
        => (same_contact <=> SameLastDigits)

BothPhonesComplete ==
    /\ BothHavePhone
    /\ Len(Digits(contact_info.phone[1])) >= PhoneDigits
    /\ Len(Digits(metadata.contact_phone[1])) >= PhoneDigits

\* C9 (amended): with a phone of at least ten digits on both sides and not
\* an email on both, the answer is exactly the equality of the last ten
\* digits, whatever the names are; with a shorter phone on either side the
\* names decide as if there were no phone.
C9Theorem ==
    /\ (op = "same_contact" /\ BothPhonesComplete /\ ~BothHaveEmail)
          => (same_contact <=> SameLastDigits)
    /\ (op = "same_contact" /\ BothHavePhone /\ ~BothPhonesComplete /\ ~BothHaveEmail)
          => (same_contact <=>
                 /\ Truthy(contact_info.full_name) /\ Truthy(metadata.contact_name)
                 /\ Strip(Lower(contact_info.full_name[1]))
                        = Strip(Lower(metadata.contact_name[1])))

\* The same number written with a country code and punctuation, no email
\* on the contact, another name: a match on the phone.
C9Witness ==
    /\ op = "same_contact"
    /\ contact_info.email = None
    /\ contact_info.phone = Some(PhoneJohnFormatted)
    /\ metadata.contact_phone = Some(PhoneJohn)
    /\ contact_info.full_name = Some(NameJane)
    /\ metadata.contact_name = Some(NameJohn)
    /\ same_contact

\* C10: a contact whose phone equals the phone of the stored record
\* matches, also when both have an email and the emails differ.
C10Claim ==
    (/\ op = "same_contact"
     /\ BothHavePhone
     /\ contact_info.phone = metadata.contact_phone)
        => same_contact

\* On a history the code can sort, with valid lead ids throughout, the
\* decision matrix is the one the claims C1 to C4 describe.
DecisionMatrixLemma ==
    (/\ AnalyzedWithLatest
     /\ ~BodyRaises
     /\ \A i \in 1..Len(contact_history) : contact_history[i].id_kind # "bad")
        => /\ SuspiciousCondition =>
                 /\ result.action = "flag"
                 /\ result.parent_lead_id = Some(LatestLead.lead_id)
                 /\ Len(result.related_leads) = Len(contact_history)
           /\ (~SuspiciousCondition /\ LinkCondition) =>
                 /\ result.action = "link"
                 /\ result.parent_lead_id = Some(LatestLead.lead_id)
           /\ (~SuspiciousCondition /\ ~LinkCondition) =>
                 /\ result.action = "process"
                 /\ result.parent_lead_id = None
                 /\ result.time_since_last = Some(MinutesSinceLatest)

(***************************************************************************)
(* related_leads, customer_sequence and the substituted elapsed time       *)
(***************************************************************************)
\* The ids of a sequence of history entries, in its order.
IdsOf(h) == [i \in 1..Len(h) |-> h[i].lead_id]

\* C11: in every result, whichever branch produced it, related_leads holds
\* the id of every entry of the supplied history, in the engine's
\* most-recent-first order of that history.
C11Claim ==
    op = "analyze"
        => /\ \A i \in 1..Len(contact_history) :
                 \E k \in 1..Len(result.related_leads) :
                     result.related_leads[k] = contact_history[i].lead_id
           /\ SortException(contact_history) = "none"
                 => result.related_leads = IdsOf(SortedHistory(contact_history))

LatestUnparsable ==
    /\ contact_history # <<>>
    /\ SortException(contact_history) = "none"
    /\ SortedHistory(contact_history)[1].metadata.received_at.ts_kind = "bad"

\* C13: when the receipt time of the most recent prior lead cannot be
\* parsed, the substituted elapsed time lies outside the suspicious window
\* and outside the link window, whatever the two windows are configured
\* to, and the result is never flag or link.
C13Claim ==
    (op = "analyze" /\ LatestUnparsable)
        => /\ FallbackHours * 60 >= settings.duplicate_suspicious_window_minutes
           /\ FallbackHours * 60 >= settings.duplicate_time_window_hours * 60
           /\ result.action \notin {"flag", "link"}

(***************************************************************************)
(* The vector service                                                      *)
(***************************************************************************)
\* The embedding of a lead's prepared text.
EmbeddingOf(lead) == Encode(NormalizedText(PrepareLeadText(lead)))

\* The similarity of two leads: 1 - distance of their embeddings.
ActualSimilarity(lead1, lead2) == SimScale - Distance(EmbeddingOf(lead1), EmbeddingOf(lead2))

FoundIds == {found[k].lead_id : k \in 1..Len(found)}

Searched == op = "index" /\ call.name = "find_similar_leads" /\ ~returned.raised

\* C14: after add_lead(L) has succeeded, a search for a lead with the same
\* message, with a threshold not above the similarity of the query and L
\* (zero included), returns a result with the id of L.
C14Claim ==
    (/\ Searched
     /\ prev # NoVecLead
     /\ NormalizedText(call.lead.message) = NormalizedText(prev.message)
     /\ call.threshold # None
     /\ call.threshold[1] <= ActualSimilarity(call.lead, prev))
        => prev.id \in FoundIds

Removed == op = "index" /\ call.name = "remove_lead"

\* C15: remove_lead returns true exactly when a record existed under the
\* id just before the call; when none existed it returns false, raises
\* nothing and leaves the index as it was; afterwards the index holds no
\* record under the id, and a search returns only ids that are stored.
C15Theorem ==
    /\ Removed =>
          /\ ~returned.raised
          /\ returned.value = "true" <=> before[call.lead.id] # None
          /\ returned.value = "false" <=> before[call.lead.id] = None
          /\ before[call.lead.id] = None => index = before
          /\ index[call.lead.id] = None
          /\ \A id \in LeadIds \ {call.lead.id} : index[id] = before[id]
    /\ Searched => FoundIds \subseteq StoredIds(index)

\* A record is removed while another id keeps its record.
C15Witness ==
    /\ Removed
    /\ returned.value = "true"
    /\ before[call.lead.id] # None
    /\ index[call.lead.id] = None
    /\ StoredIds(index) # {}

\* What the caller passed: None stands for the configured default.
Passed(arg, default) == IF arg = None THEN default ELSE arg[1]

PassedThreshold == Passed(call.threshold, DefaultSimilarityThreshold)

PassedLimit == Passed(call.limit, DefaultMaxSimilarLeads)

ScoreOf(id) == SimScale - Distance(EmbeddingOf(call.lead), index[id][1].embedding)

\* C16: a search returns at most limit results, in non-increasing order of
\* score, and exactly those of the limit nearest records whose score is
\* not below the threshold the caller passed; the list is empty when no
\* record reaches the threshold, and nothing is raised.
C16Claim ==
    Searched =>
        /\ Len(found) <= PassedLimit
        /\ \A i, j \in 1..Len(found) :
              i < j => found[i].similarity_score >= found[j].similarity_score
        /\ \E q \in QueryResults(index, EmbeddingOf(call.lead), PassedLimit) :
              FoundIds = {q[i] : i \in {i \in 1..Len(q) : ScoreOf(q[i]) >= PassedThreshold}}
        /\ (\A id \in StoredIds(index) : ScoreOf(id) < PassedThreshold) => found = <<>>

Updated == op = "index" /\ call.name = "update_lead" /\ ~returned.raised

\* C17: after a successful update_lead the index holds one record under
\* the id of the lead, and its vector, document and metadata are those of
\* the new lead alone, whether or not a record existed before; the other
\* ids keep their records.
C17Theorem ==
    Updated =>
        /\ index[call.lead.id] = Some(LeadRecord(call.lead, EmbeddingOf(call.lead)))
        /\ \A id \in LeadIds \ {call.lead.id} : index[id] = before[id]

\* An update replaces a record that carried a contact name by one that
\* carries none.
C17Witness ==
    /\ Updated
    /\ before[call.lead.id] # None
    /\ before[call.lead.id][1].metadata.contact_name # None
    /\ index[call.lead.id] # None
    /\ index[call.lead.id][1].metadata.contact_name = None
    /\ index[call.lead.id][1].document # before[call.lead.id][1].document

RunAlone(idx, c) ==
    CASE c.name = "add_lead" -> AddLead(idx, c.lead, TRUE)
      [] c.name = "update_lead" -> UpdateLead(idx, c.lead, TRUE)
      [] OTHER -> RemoveLead(idx, c.lead.id)

\* The calls p then q, one after the other, end in the collection and the
\* return values of the state.
EqualsSerial(p, q) ==
    LET first == RunAlone(before, procs[p])
        second == RunAlone(first.index, procs[q])
    IN  /\ index = second.index
        /\ procs[p].value = first.value
        /\ procs[q].value = second.value

AllDone == op = "concurrent" /\ \A p \in Procs : procs[p].pc = "done"

StatusRank(status) ==
    CASE status = "none" -> 0
      [] status = "raw" -> 1
      [] status = "processing" -> 2
      [] status = "enriched" -> 3
      [] status = "synced" -> 4
      [] OTHER -> 5

\* The status stays, moves forward along raw, processing, enriched,
\* synced, or becomes failed.
MovesForward(from, to) ==
    \/ to = from
    \/ from # "failed" /\ to = "failed"
    \/ from # "failed" /\ to # "failed" /\ StatusRank(to) > StatusRank(from)

FailureRecorded(lead, run) ==
    lead.status = "failed" =>
        /\ run.raised # None
        /\ \E k \in 1..Len(lead.processing_errors) :
              lead.processing_errors[k] = ErrorMsg(run.raised[1])

\* C20: during a run of process_lead_pipeline the status of the lead
\* changes only forward along raw, processing, enriched, synced, or to
\* failed, never backward, and whenever it is failed the error list holds
\* the failure message.
C20Theorem ==
    [][\A r \in Runs :
          /\ MovesForward(enriched_lead[r].status, enriched_lead'[r].status)
          /\ FailureRecorded(enriched_lead'[r], pipeline'[r])]_vars

\* A lead that was enriched fails at the indexing write, and the message
\* of that failure is on the lead.
C20Witness ==
    /\ op = "pipeline"
    /\ enriched_lead[1].status = "failed"
    /\ enriched_lead[1].has_ai_analysis
    /\ pipeline[1].raised = Some("Failed to add lead")
    /\ enriched_lead[1].processing_errors = <<ErrorMsg("Failed to add lead")>>

(***************************************************************************)
(* analyze_lead inside process_lead_pipeline                               *)
(***************************************************************************)
\* C21: when the request to the model times out, fails to connect, comes
\* back with an HTTP error or with a body that is not JSON, analyze_lead
\* returns a fallback analysis instead of raising, and the pipeline goes
\* on to the index insertion with an enriched lead; it is not marked
\* failed.
C21Theorem ==
    [][\A r \in Runs :
          PipelineAt(r, "analyze_lead") /\ pipeline'[r] # pipeline[r] =>
              /\ pipeline'[r].pc = "add_lead"
              /\ pipeline'[r].raised = None
              /\ enriched_lead'[r].status = "enriched"
              /\ enriched_lead'[r].processing_errors = <<>>
              /\ enriched_lead'[r].ai_analysis # None
              /\ (pipeline'[r].llm # "ok" =>
                     enriched_lead'[r].ai_analysis[1].kind = "fallback")]_vars

\* The request timed out, the lead carries the fallback analysis of an
\* urgent message, and the index insertion has been made.
C21Witness ==
    /\ op = "pipeline"
    /\ pipeline[1].llm = "timeout"
    /\ enriched_lead[1].ai_analysis # None
    /\ enriched_lead[1].ai_analysis[1].kind = "fallback"
    /\ enriched_lead[1].ai_analysis[1].urgency = "high"
    /\ enriched_lead[1].has_vector_data
    /\ enriched_lead[1].status # "failed"

(***************************************************************************)
(* The sync step of process_lead_pipeline                                  *)
(***************************************************************************)
\* The run has left process_lead_pipeline by its return statement.
Returned(r) == pipeline[r].pc \in {"returned", "responded", "logged"} /\ pipeline[r].raised = None

SyncFailed(r) == pipeline[r].crm /\ pipeline[r].sync = "failed"

\* The record add_lead stored for the lead of the run is in the index.
Indexed(r) ==
    /\ enriched_lead[r].id \in StoredIds(index)
    /\ index[enriched_lead[r].id][1].metadata.lead_id = enriched_lead[r].id

\* C22: when the CRM is configured and the sync of the lead fails, the run
\* returns the lead with the failure recorded on it, the record of step 3
\* still in the index and the analysis of step 2 still on the lead.
C22Claim ==
    \A r \in Runs :
        SyncFailed(r) /\ Returned(r) =>
            /\ enriched_lead[r].processing_errors # <<>>
            /\ Indexed(r)
            /\ enriched_lead[r].ai_analysis # None

(***************************************************************************)
(* The lookup step of process_lead_pipeline                                *)
(***************************************************************************)
\* find_similar_leads raised its ChromaDBError into the run.
LookupFailed(r) == pipeline[r].raised = Some("Similarity search failed")

\* C23: when the similarity lookup of step 1 fails, the run treats the
\* lead as new and goes on: it does not raise and the lead is not marked
\* failed because of the lookup.
C23Claim ==
    \A r \in Runs :
        LookupFailed(r) =>
            /\ pipeline[r].pc # "raised"
            /\ enriched_lead[r].status # "failed"
            /\ enriched_lead[r].processing_errors = <<>>

(***************************************************************************)
(* submit_lead                                                             *)
(***************************************************************************)
Responded(r) == response[r].status_code # 0

ValidSubmission(r) == pipeline[r].pc # "none" /\ ~BlankMessage(pipeline[r].lead_input)

\* C24: the response to a valid submission is a success acknowledgement
\* that carries a lead id, with background processing enabled or
\* disabled, whatever becomes of analysis, indexing and sync.
C24Claim ==
    \A r \in Runs :
        ValidSubmission(r) /\ Responded(r) =>
            /\ response[r].success
            /\ response[r].lead_id # None

(***************************************************************************)
(* Submissions side by side                                                *)
(***************************************************************************)
\* The run is over: the task has logged, or the response has been sent.
Ended(r) == pipeline[r].pc \in {"logged", "responded"}

AllEnded == op = "batch" /\ \A r \in Runs : Ended(r)

\* The lead of the run carries the fields of its own submission, its own
\* analysis, and the id of a record of the table that was made for it.
OwnFields(r) ==
    /\ enriched_lead[r].message = pipeline[r].lead_input.message
    /\ enriched_lead[r].full_name = pipeline[r].lead_input.full_name
    /\ \A q \in Runs \ {r} : enriched_lead[q].id # enriched_lead[r].id
    /\ enriched_lead[r].ai_analysis # None /\ enriched_lead[r].ai_analysis[1].kind = "fallback" =>
          enriched_lead[r].ai_analysis[1] =
              CreateFallbackAnalysis(pipeline[r].lead_input, enriched_lead[r].ai_analysis[1].model_used[1])
    /\ enriched_lead[r].external_id # None =>
          table[enriched_lead[r].external_id[1]] = Some(enriched_lead[r].id)

\* The parts of C25 that hold in every interleaving.
NoBleedLemma == op = "batch" => \A r \in Runs : pipeline[r].pc \notin {"none", "rejected", "create"} => OwnFields(r)

\* C25: when leads of different contacts are submitted at the same time
\* with the CRM configured, every run ends with its lead synced, or failed
\* with the error recorded, and each lead carries its own contact,
\* analysis and external id.
C25Claim ==
    AllEnded =>
        \A r \in Runs :
            pipeline[r].crm =>
                /\ \/ enriched_lead[r].status = "synced"
                   \/ /\ enriched_lead[r].status = "failed"
                      /\ enriched_lead[r].processing_errors # <<>>
                /\ OwnFields(r)

(***************************************************************************)
(* sync_lead on a lead that holds an external id                           *)
(***************************************************************************)
\* The latest sync was made with a lead that held an Airtable record id.
HeldExternalId == op = "crm" /\ crm.held

\* C26: the sync of a lead that holds an Airtable record id never creates
\* a second record: a table that held at most one record for the lead
\* before the sync holds at most one after it.
C26Claim ==
    HeldExternalId =>
        Cardinality(RecordsOf(table, crm.lead.id)) <=
            Max(1, Cardinality(RecordsOf(crm.before, crm.lead.id)))

(***************************************************************************)
(* The lead id of the response                                             *)
(***************************************************************************)
\* The submitter of the run has been given a lead id.
Acknowledged(r) == response[r].success /\ response[r].lead_id # None

\* C27: the lead id returned to the submitter by submit_lead, and each id
\* of lead_ids returned by submit_leads_batch, is the id of the lead the
\* pipeline processes: the id under which the lead is stored in the index
\* and synced to the CRM.
C27Claim ==
    \A r \in Runs :
        Acknowledged(r) /\ enriched_lead[r].status # "none" =>
            /\ response[r].lead_id = Some(enriched_lead[r].id)
            /\ enriched_lead[r].has_vector_data => response[r].lead_id[1] \in StoredIds(index)

(***************************************************************************)
(* update_lead that fails                                                  *)
(***************************************************************************)
UpdateFailed == op = "index" /\ call.name = "update_lead" /\ returned.raised

\* C28: when update_lead raises, the record that was stored under the id
\* of the lead before the call is still in the index, unchanged.
C28Claim == UpdateFailed => index[call.lead.id] = before[call.lead.id]

(***************************************************************************)
(* The contact keys of a stored record                                     *)
(***************************************************************************)
\* The record was stored by add_lead for the contact, and the lead at hand
\* comes with the same complete phone number and no email.
SamePhoneNoEmail(stored) ==
    /\ op = "same_contact"
    /\ metadata = ContactMetadata(stored)
    /\ Truthy(stored.phone)
    /\ Len(Digits(stored.phone[1])) >= PhoneDigits
    /\ contact_info.phone = stored.phone
    /\ ~Truthy(contact_info.email)

\* C29: add_lead keeps every contact identifier of the lead in the
\* metadata of the record, so a later lead with the same phone and no
\* email is recognised as coming from the contact of the stored record.
C29Claim ==
    \A stored \in ContactInfos :
        SamePhoneNoEmail(stored) =>
            /\ metadata.contact_phone = stored.phone
            /\ same_contact

(***************************************************************************)
(* The rate limiter of the Airtable service                                *)
(***************************************************************************)
\* C30: any two requests let through by _rate_limit are at least
\* rate_limit_delay apart, whatever the interleaving of the callers.
C30Claim ==
    \A i, j \in 1..Len(limiter.admitted) :
        i < j => limiter.admitted[j] - limiter.admitted[i] >= RateLimitDelay

====
